---------------------------- MODULE Spec2Model ----------------------------
(***************************************************************************)
(* TinyPOR: ATTiny85 power-on/reset controller for the Raspberry Pi.       *)
(* Model of src/TinyPOR.ino: setup(), loop(), the Bounce debouncer the     *)
(* sketch polls, and the environment (millisecond clock, raw button        *)
(* level, ACKOFF level).                                                   *)
(***************************************************************************)
EXTENDS Integers, Sequences, FiniteSets, TLC

(***************************************************************************)
(* Program constants                                                       *)
(***************************************************************************)
PIN_RUN == 0
PIN_SHUTDOWN == 2
PIN_ACKOFF == 1
PIN_BUTT == 3
PIN_BUTT_LED == 4

DEBOUNCE_MS == 100
RESET_HOLD_MS == 500
BUTTON_PRESS_MS == 500

\* delay(100) between the two writes of the SHUTDOWN pulse
SHUTDOWN_PULSE_MS == 100


LOW == "LOW"
HIGH == "HIGH"
INPUT == "INPUT"
OUTPUT == "OUTPUT"

STATE_OFF == "STATE_OFF"
STATE_STARTING == "STATE_STARTING"
STATE_ON == "STATE_ON"
STATE_SHUTTING_DOWN == "STATE_SHUTTING_DOWN"

state_t == {STATE_OFF, STATE_STARTING, STATE_ON, STATE_SHUTTING_DOWN}

Pins == {PIN_RUN, PIN_SHUTDOWN, PIN_ACKOFF, PIN_BUTT, PIN_BUTT_LED}

(***************************************************************************)
(* Bounds of the model                                                     *)
(***************************************************************************)
\* loop() is not entered later than MaxTime
MaxTime == 1800

\* width of unsigned long in the model.  On the ATTiny85 it is 32 bits; TLC
\* computes in 32-bit signed integers, so 2^32 cannot be written and the
\* model's word is narrower.  Under Spec and LiveSpec every timestamp stays
\* far below 2^ULONG_BITS; WrapSpec starts shortly before millis() wraps.
ULONG_BITS == 16

\* under WrapSpec loop() is not entered later than WrapOver ms after millis()
\* has wrapped around
WrapOver == 600

\* under LiveSpec loop() is not entered later than LiveMaxTime; a reset pulse
\* that is being held is followed for LivePulseTime longer
LiveMaxTime == 1300

LivePulseTime == RESET_HOLD_MS + DEBOUNCE_MS

\* amounts by which millis() grows from one call of loop() to the next
ClockSteps == {0, 50, 100}

(***************************************************************************)
(* State                                                                   *)
(***************************************************************************)
VARIABLES
    clock,        \* value of millis() when the latest loop() call returned
    butt,         \* the Bounce object
    press_start,
    reset_start,
    now,
    curr,
    port,         \* level last written to each pin (digitalWrite)
    ddr,          \* direction of each pin (pinMode)
    log,          \* pin reads, pin writes and delays of the latest loop() call
    pre,          \* history: values at entry of the latest loop() call
    press,        \* history: the confirmed rising edge of the press being held
    hist          \* history: true (unwrapped) times and counts, see History

vars == <<clock, butt, press_start, reset_start, now, curr,
          port, ddr, log, pre, press, hist>>

(***************************************************************************)
(* Arithmetic on unsigned long                                             *)
(***************************************************************************)
Modulus == 2 ^ ULONG_BITS

\* a - b in unsigned long
Sub32(a, b) == (a - b + Modulus) % Modulus

\* a + b in unsigned long
Add32(a, b) == (a + b) % Modulus

(***************************************************************************)
(* Arduino primitives, acting on a record s of the sketch's state          *)
(***************************************************************************)
digitalWrite(s, pin, v) ==
    [s EXCEPT !.port[pin] = v, !.log = Append(@, <<"digitalWrite", pin, v>>)]

pinMode(s, pin, m) ==
    [s EXCEPT !.ddr[pin] = m, !.log = Append(@, <<"pinMode", pin, m>>)]

\* digitalRead of a pin whose level is v: the state after the read
digitalRead(s, pin, v) ==
    [s EXCEPT !.log = Append(@, <<"digitalRead", pin, v>>)]

delay(s, ms) ==
    [s EXCEPT !.clock = Add32(@, ms), !.log = Append(@, <<"delay", ms>>)]

(***************************************************************************)
(* Bounce debouncer (stable-interval algorithm)                            *)
(***************************************************************************)
\* variant: butt.interval() is not called and the library's default of a
\* tenth of DEBOUNCE_MS stays in force
ButtInterval_Default == DEBOUNCE_MS \div 10

\* butt.interval(DEBOUNCE_MS)
ButtInterval == DEBOUNCE_MS

\* Bounce::attach followed by Bounce::interval
BounceAttach(raw, t) ==
    [debounced |-> raw, unstable |-> raw, changed |-> FALSE,
     previous_millis |-> t, interval_millis |-> ButtInterval]

\* Bounce::update
BounceUpdate(b, raw, t) ==
    IF raw # b.unstable
    THEN [b EXCEPT !.changed = FALSE, !.previous_millis = t, !.unstable = raw]
    ELSE IF Sub32(t, b.previous_millis) >= b.interval_millis /\ raw # b.debounced
         THEN [b EXCEPT !.changed = TRUE, !.previous_millis = t, !.debounced = raw]
         ELSE [b EXCEPT !.changed = FALSE]

\* Bounce::rose
rose(b) == b.changed /\ b.debounced = HIGH

\* Bounce::fell
fell(b) == b.changed /\ b.debounced = LOW

(***************************************************************************)
(* loop(): the tests on elapsed time                                       *)
(***************************************************************************)
\* variant: strict comparison
PressQualifies_Strict(n, ps) == Sub32(n, ps) > BUTTON_PRESS_MS

\* variant: operands of the subtraction exchanged
PressQualifies_Swapped(n, ps) == Sub32(ps, n) >= BUTTON_PRESS_MS

PressQualifies(n, ps) == Sub32(n, ps) >= BUTTON_PRESS_MS

\* variant: the difference is taken in signed arithmetic, without wraparound
ResetHeld_Signed(n, rs) == n - rs >= RESET_HOLD_MS

\* variant: strict comparison
ResetHeld_Strict(n, rs) == Sub32(n, rs) > RESET_HOLD_MS

ResetHeld(n, rs) == Sub32(n, rs) >= RESET_HOLD_MS

\* the state the enum and the state diagram put after c
NextState(c) ==
    CASE c = STATE_OFF -> STATE_STARTING
      [] c = STATE_STARTING -> STATE_ON
      [] c = STATE_ON -> STATE_SHUTTING_DOWN
      [] c = STATE_SHUTTING_DOWN -> STATE_OFF

(***************************************************************************)
(* loop(): the cases of the switch                                         *)
(***************************************************************************)
StartReset(s) ==
    LET s1 == pinMode(s, PIN_RUN, OUTPUT)
        s2 == digitalWrite(s1, PIN_RUN, LOW)
        s3 == digitalWrite(s2, PIN_BUTT_LED, LOW)
    IN  [s3 EXCEPT !.reset_start = s.now, !.curr = STATE_STARTING]

\* variant: the released level is tested instead of the falling edge
CaseOff_Level(s, b) ==
    IF b.debounced = LOW
    THEN LET s1 == [s EXCEPT !.now = s.clock]
             s2 == IF PressQualifies(s1.now, s1.press_start)
                   THEN StartReset(s1)
                   ELSE s1
         IN  [s2 EXCEPT !.press_start = 0]
    ELSE s

CaseOff(s, b) ==
    IF fell(b)
    THEN LET s1 == [s EXCEPT !.now = s.clock]
             s2 == IF PressQualifies(s1.now, s1.press_start)
                   THEN StartReset(s1)
                   ELSE s1
         IN  [s2 EXCEPT !.press_start = 0]
    ELSE s

\* variant: RUN is written HIGH but left an output
EndReset_StillOutput(s) ==
    LET s1 == digitalWrite(s, PIN_RUN, HIGH)
        s3 == digitalWrite(s1, PIN_BUTT_LED, HIGH)
    IN  [s3 EXCEPT !.curr = STATE_ON]

\* variant: the state machine falls back to STATE_OFF
EndReset_ToOff(s) ==
    LET s1 == digitalWrite(s, PIN_RUN, HIGH)
        s2 == pinMode(s1, PIN_RUN, INPUT)
        s3 == digitalWrite(s2, PIN_BUTT_LED, HIGH)
    IN  [s3 EXCEPT !.curr = STATE_OFF]

EndReset(s) ==
    LET s1 == digitalWrite(s, PIN_RUN, HIGH)
        s2 == pinMode(s1, PIN_RUN, INPUT)
        s3 == digitalWrite(s2, PIN_BUTT_LED, HIGH)
    IN  [s3 EXCEPT !.curr = STATE_ON]

\* variant: the hold is measured from press_start instead of reset_start
CaseStarting_WrongStamp(s) ==
    LET s1 == [s EXCEPT !.now = s.clock]
    IN  IF ResetHeld(s1.now, s1.press_start) THEN EndReset(s1) ELSE s1

CaseStarting(s) ==
    LET s1 == [s EXCEPT !.now = s.clock]
    IN  IF ResetHeld(s1.now, s1.reset_start) THEN EndReset(s1) ELSE s1

\* variant: the SHUTDOWN line is never released
PulseShutdown_NoRelease(s) ==
    LET s1 == digitalWrite(s, PIN_SHUTDOWN, HIGH)
        s2 == delay(s1, SHUTDOWN_PULSE_MS)
    IN  [s2 EXCEPT !.curr = STATE_SHUTTING_DOWN]

PulseShutdown(s) ==
    LET s1 == digitalWrite(s, PIN_SHUTDOWN, HIGH)
        s2 == delay(s1, SHUTDOWN_PULSE_MS)
        s3 == digitalWrite(s2, PIN_SHUTDOWN, LOW)
    IN  [s3 EXCEPT !.curr = STATE_SHUTTING_DOWN]

\* variant: the shutdown is requested as soon as the button has been held
\* for BUTTON_PRESS_MS, without waiting for its release
CaseOn_HoldTriggers(s, b) ==
    LET s1 == [s EXCEPT !.now = s.clock]
    IN  IF b.debounced = HIGH /\ PressQualifies(s1.now, s1.press_start)
        THEN [PulseShutdown(s1) EXCEPT !.press_start = 0]
        ELSE IF fell(b) THEN [s1 EXCEPT !.press_start = 0] ELSE s

\* variant: press_start is cleared only after a qualifying press
CaseOn_NoClear(s, b) ==
    IF fell(b)
    THEN LET s1 == [s EXCEPT !.now = s.clock]
         IN  IF PressQualifies(s1.now, s1.press_start)
             THEN [PulseShutdown(s1) EXCEPT !.press_start = 0]
             ELSE s1
    ELSE s

CaseOn(s, b) ==
    IF fell(b)
    THEN LET s1 == [s EXCEPT !.now = s.clock]
             s2 == IF PressQualifies(s1.now, s1.press_start)
                   THEN PulseShutdown(s1)
                   ELSE s1
         IN  [s2 EXCEPT !.press_start = 0]
    ELSE s

\* variant: the LED is left dark when the host is down
CaseShuttingDown_NoLed(s, ack) ==
    LET s1 == digitalRead(s, PIN_ACKOFF, ack)
    IN  IF ack = HIGH THEN [s1 EXCEPT !.curr = STATE_OFF] ELSE s1

\* variant: STATE_SHUTTING_DOWN times out RESET_HOLD_MS after the pulse
CaseShuttingDown_Timeout(s, ack) ==
    LET s1 == digitalRead(s, PIN_ACKOFF, ack)
    IN  IF ack = HIGH \/ Sub32(s.clock, s.now) >= RESET_HOLD_MS
        THEN [digitalWrite(s1, PIN_BUTT_LED, LOW) EXCEPT !.curr = STATE_OFF]
        ELSE s1

CaseShuttingDown(s, ack) ==
    LET s1 == digitalRead(s, PIN_ACKOFF, ack)
    IN  IF ack = HIGH
        THEN [digitalWrite(s1, PIN_BUTT_LED, LOW) EXCEPT !.curr = STATE_OFF]
        ELSE s1

\* if (butt.rose()) press_start = millis();
RecordPress(s, b) ==
    IF rose(b) THEN [s EXCEPT !.press_start = s.clock] ELSE s

\* variant: ACKOFF HIGH is also taken as "host is down" in STATE_ON
LoopBody_AckInOn(s, b, ack) ==
    LET s1 == RecordPress(s, b)
    IN  CASE s1.curr = STATE_OFF -> CaseOff(s1, b)
          [] s1.curr = STATE_STARTING -> CaseStarting(s1)
          [] s1.curr = STATE_ON ->
                IF ack = HIGH
                THEN [digitalWrite(s1, PIN_BUTT_LED, LOW) EXCEPT !.curr = STATE_OFF]
                ELSE CaseOn(s1, b)
          [] s1.curr = STATE_SHUTTING_DOWN -> CaseShuttingDown(s1, ack)
          [] OTHER -> s1

\* the body of loop() after butt.update(): b is the updated debouncer,
\* ack the level digitalRead(PIN_ACKOFF) returns
LoopBody(s, b, ack) ==
    LET s1 == RecordPress(s, b)
    IN  CASE s1.curr = STATE_OFF -> CaseOff(s1, b)
          [] s1.curr = STATE_STARTING -> CaseStarting(s1)
          [] s1.curr = STATE_ON -> CaseOn(s1, b)
          [] s1.curr = STATE_SHUTTING_DOWN -> CaseShuttingDown(s1, ack)
          [] OTHER -> s1

\* the sketch's state as one record when loop() is entered at time t (the
\* log of the call is empty)
Sketch(t) ==
    [curr |-> curr, press_start |-> press_start, reset_start |-> reset_start,
     now |-> now, port |-> port, ddr |-> ddr, clock |-> t, log |-> <<>>]

(***************************************************************************)
(* History                                                                 *)
(***************************************************************************)
NoPress == [at |-> -1, in |-> "none"]

\* the values loop() finds when it is entered at time t
Entry(t) ==
    [curr |-> curr, press_start |-> press_start, reset_start |-> reset_start,
     clock |-> t, press |-> press]

\* hist.age         ms since the initial state, not wrapped, when the latest
\*                  loop() call returned
\* hist.raw_stable  ms for which the calls have seen PIN_BUTT at its present
\*                  level without a change, counted up to DEBOUNCE_MS
\* hist.press_at    age at which the rising edge of the press being held was
\*                  confirmed (-1: none)
\* hist.reset_at    age at which the latest reset pulse was started (-1: none)
\* hist.triggered   Off->Starting and On->ShuttingDown transitions made since
\*                  the latest confirmed rising edge (counted up to 2)
\* hist.first_cycle no ShuttingDown->Off transition has been made yet
HistInit ==
    [age |-> 0, raw_stable |-> 0, press_at |-> -1, reset_at |-> -1,
     triggered |-> 0, first_cycle |-> TRUE]

\* hist after a loop() call entered d ms after the previous one returned, in
\* which PIN_BUTT was at level raw, the debouncer became b and the sketch s
HistNext(d, raw, b, s) ==
    LET a == hist.age + d
        spent == Sub32(s.clock, Add32(clock, d))
        stable == IF raw # butt.unstable THEN spent
                  ELSE hist.raw_stable + d + spent
        button == curr \in {STATE_OFF, STATE_ON} /\ s.curr # curr
    IN  [age |-> a + spent,
         raw_stable |-> IF stable < DEBOUNCE_MS THEN stable ELSE DEBOUNCE_MS,
         press_at |-> IF rose(b) THEN a
                      ELSE IF fell(b) THEN -1 ELSE hist.press_at,
         reset_at |-> IF curr = STATE_OFF /\ s.curr = STATE_STARTING
                      THEN a ELSE hist.reset_at,
         triggered |-> IF rose(b) THEN 0
                       ELSE IF button /\ hist.triggered < 2
                            THEN hist.triggered + 1
                            ELSE hist.triggered,
         first_cycle |-> hist.first_cycle
                         /\ ~(curr = STATE_SHUTTING_DOWN /\ s.curr = STATE_OFF)]

(***************************************************************************)
(* Initial state: power-up, then setup()                                   *)
(***************************************************************************)
\* variant: the sketch boots believing the host is off
Init_BootOff ==
    /\ clock = 0
    /\ \E raw \in {LOW, HIGH} : butt = BounceAttach(raw, clock)
    /\ press_start = 0
    /\ reset_start = 0
    /\ now = 0
    /\ curr = STATE_OFF
    /\ port = [p \in Pins |->
                 IF p \in {PIN_BUTT_LED, PIN_RUN} THEN HIGH ELSE LOW]
    /\ ddr = [p \in Pins |->
                 IF p \in {PIN_SHUTDOWN, PIN_BUTT_LED} THEN OUTPUT ELSE INPUT]
    /\ log = <<>>
    /\ press = NoPress
    /\ pre = Entry(clock)
    /\ hist = HistInit

Init ==
    /\ clock = 0
    /\ \E raw \in {LOW, HIGH} : butt = BounceAttach(raw, clock)
    /\ press_start = 0
    /\ reset_start = 0
    /\ now = 0
    /\ curr = STATE_ON
    /\ port = [p \in Pins |->
                 IF p \in {PIN_BUTT_LED, PIN_RUN} THEN HIGH ELSE LOW]
    /\ ddr = [p \in Pins |->
                 IF p \in {PIN_SHUTDOWN, PIN_BUTT_LED} THEN OUTPUT ELSE INPUT]
    /\ log = <<>>
    /\ press = NoPress
    /\ pre = Entry(clock)
    /\ hist = HistInit

(***************************************************************************)
(* Actions                                                                 *)
(***************************************************************************)
\* One call of loop(), entered d ms after the previous call returned, with
\* PIN_BUTT at level raw and PIN_ACKOFF at level ack.
Call(d, raw, ack) ==
    LET t == Add32(clock, d)
        b == BounceUpdate(butt, raw, t)
        s == LoopBody(Sketch(t), b, ack)
    IN  /\ butt' = b
        /\ curr' = s.curr
        /\ press_start' = s.press_start
        /\ reset_start' = s.reset_start
        /\ now' = s.now
        /\ port' = s.port
        /\ ddr' = s.ddr
        /\ clock' = s.clock
        /\ log' = s.log
        /\ pre' = Entry(t)
        /\ press' = IF rose(b) THEN [at |-> t, in |-> curr]
                    ELSE IF fell(b) THEN NoPress
                    ELSE press
        /\ hist' = HistNext(d, raw, b, s)

\* the calls made up to MaxTime
Loop(d, raw, ack) ==
    /\ clock + d <= MaxTime
    /\ Call(d, raw, ack)

Poll == \E d \in ClockSteps, raw \in {LOW, HIGH}, ack \in {LOW, HIGH} :
            Loop(d, raw, ack)

Next == Poll

Spec == Init /\ [][Next]_vars

(***************************************************************************)
(* The sketch under its scheduling: the Arduino core calls loop() again    *)
(* and again, and the timer interrupt keeps millis() growing, so calls     *)
(* that find a later millis() than the call before keep being made.  A     *)
(* reset pulse that has been started is followed beyond LiveMaxTime, for   *)
(* longer than the pulse lasts.                                            *)
(***************************************************************************)
LiveLoop(d, raw, ack) ==
    /\ clock + d <= LiveMaxTime
                      + (IF curr = STATE_STARTING THEN LivePulseTime ELSE 0)
    /\ Call(d, raw, ack)

\* a call that finds millis() grown since the call before
Tick == \E d \in ClockSteps \ {0}, raw \in {LOW, HIGH}, ack \in {LOW, HIGH} :
            LiveLoop(d, raw, ack)

\* a call within the same millisecond as the call before
Repoll == \E raw \in {LOW, HIGH}, ack \in {LOW, HIGH} : LiveLoop(0, raw, ack)

LiveNext == Tick \/ Repoll

LiveSpec == Init /\ [][LiveNext]_vars /\ WF_vars(Tick)

(***************************************************************************)
(* The sketch around the wraparound of millis().  WrapInit is the sketch   *)
(* after an uptime of almost 2^ULONG_BITS ms in which the button was left  *)
(* alone: either nothing has happened since setup() (curr = On), or one    *)
(* long press right after power-up was acknowledged by the host (curr =    *)
(* Off; the press was confirmed at DEBOUNCE_MS and its release at          *)
(* LastRelease).                                                           *)
(***************************************************************************)
WrapStarts == {Modulus - 900, Modulus - 300}

LastRelease == DEBOUNCE_MS + BUTTON_PRESS_MS + DEBOUNCE_MS

WrapInit ==
    /\ clock \in WrapStarts
    /\ curr \in {STATE_ON, STATE_OFF}
    /\ butt = [BounceAttach(LOW, 0) EXCEPT
                 !.previous_millis = IF curr = STATE_OFF THEN LastRelease ELSE 0]
    /\ press_start = 0
    /\ reset_start = 0
    /\ now = IF curr = STATE_OFF THEN LastRelease ELSE 0
    /\ port = [p \in Pins |->
                 IF p = PIN_RUN THEN HIGH
                 ELSE IF p = PIN_BUTT_LED /\ curr = STATE_ON THEN HIGH
                 ELSE LOW]
    /\ ddr = [p \in Pins |->
                 IF p \in {PIN_SHUTDOWN, PIN_BUTT_LED} THEN OUTPUT ELSE INPUT]
    /\ log = <<>>
    /\ press = NoPress
    /\ pre = Entry(clock)
    /\ hist = [HistInit EXCEPT !.age = clock,
                               !.raw_stable = DEBOUNCE_MS,
                               !.triggered = IF curr = STATE_OFF THEN 1 ELSE 0,
                               !.first_cycle = (curr = STATE_ON)]

WrapLoop(d, raw, ack) ==
    /\ hist.age + d <= Modulus + WrapOver
    /\ Call(d, raw, ack)

WrapPoll == \E d \in ClockSteps, raw \in {LOW, HIGH}, ack \in {LOW, HIGH} :
                WrapLoop(d, raw, ack)

WrapNext == WrapPoll

WrapSpec == WrapInit /\ [][WrapNext]_vars


(***************************************************************************)
(* Vocabulary of the properties.  Every step is one call of loop(): the    *)
(* unprimed variables are the values the call finds, pre'.clock is the     *)
(* value of millis() during the call, butt' the debouncer after update().  *)
(***************************************************************************)
RunDrivenLow == ddr[PIN_RUN] = OUTPUT /\ port[PIN_RUN] = LOW

RunReleased == ddr[PIN_RUN] = INPUT

StartResetLog ==
    << <<"pinMode", PIN_RUN, OUTPUT>>, <<"digitalWrite", PIN_RUN, LOW>>,
       <<"digitalWrite", PIN_BUTT_LED, LOW>> >>

EndResetLog ==
    << <<"digitalWrite", PIN_RUN, HIGH>>, <<"pinMode", PIN_RUN, INPUT>>,
       <<"digitalWrite", PIN_BUTT_LED, HIGH>> >>

PulseLog ==
    << <<"digitalWrite", PIN_SHUTDOWN, HIGH>>, <<"delay", SHUTDOWN_PULSE_MS>>,
       <<"digitalWrite", PIN_SHUTDOWN, LOW>> >>

\* number of writes of HIGH to SHUTDOWN in a log
ShutdownHighs(l) ==
    Cardinality({i \in DOMAIN l : l[i] = <<"digitalWrite", PIN_SHUTDOWN, HIGH>>})

(***************************************************************************)
(* C1: every change of curr goes to its cyclic successor                   *)
(* (Off->Starting->On->ShuttingDown->Off); no state is skipped and the     *)
(* order is never reversed, whatever the button, ACKOFF and the clock do.  *)
(***************************************************************************)
C1_CyclicOrder == [][curr' # curr => curr' = NextState(curr)]_vars

\* the rotation has come back round: On (boot) -> ShuttingDown -> Off ->
\* Starting -> On
C1_Witness == pre.curr = STATE_STARTING /\ curr = STATE_ON

(***************************************************************************)
(* C2: in Off, a falling edge confirmed with now - press_start >=          *)
(* BUTTON_PRESS_MS (equality included) makes the same loop() call switch   *)
(* RUN to output and drive it LOW, light the LED, record reset_start = now *)
(* and set curr = Starting.                                                *)
(***************************************************************************)
C2_StartFromOff ==
    [][(/\ curr = STATE_OFF
        /\ fell(butt')
        /\ pre'.clock - press_start >= BUTTON_PRESS_MS)
       => /\ log' = StartResetLog
          /\ RunDrivenLow'
          /\ port'[PIN_BUTT_LED] = LOW
          /\ now' = pre'.clock
          /\ reset_start' = now'
          /\ curr' = STATE_STARTING]_vars

\* a press of exactly BUTTON_PRESS_MS released in Off has started the reset
C2_Witness ==
    /\ pre.curr = STATE_OFF
    /\ fell(butt)
    /\ pre.clock - pre.press_start = BUTTON_PRESS_MS
    /\ curr = STATE_STARTING

(***************************************************************************)
(* C3 (as stated): after a qualifying press from Off confirmed at T, RUN   *)
(* is driven low at T, released at exactly T + RESET_HOLD_MS, and          *)
(* curr = On right after the release.                                      *)
(***************************************************************************)
C3_ExactRelease ==
    [][/\ (curr = STATE_OFF /\ curr' = STATE_STARTING)
            => (reset_start' = pre'.clock /\ RunDrivenLow')
       /\ (curr = STATE_STARTING /\ RunReleased')
            => (pre'.clock = reset_start + RESET_HOLD_MS /\ curr' = STATE_ON)
       /\ (curr = STATE_STARTING /\ pre'.clock = reset_start + RESET_HOLD_MS)
            => RunReleased']_vars

(***************************************************************************)
(* C3 (amended): RUN is driven low at T and stays driven low until the     *)
(* first loop() call that reads millis() >= T + RESET_HOLD_MS; that call   *)
(* releases it (never earlier; later than T + RESET_HOLD_MS when no call   *)
(* reads that value) and leaves curr = On.                                 *)
(***************************************************************************)
C3_ReleaseAtFirstPoll ==
    [][/\ (curr = STATE_OFF /\ curr' = STATE_STARTING)
            => (reset_start' = pre'.clock /\ RunDrivenLow')
       /\ curr = STATE_STARTING
            => IF pre'.clock - reset_start >= RESET_HOLD_MS
               THEN RunReleased' /\ curr' = STATE_ON /\ log' = EndResetLog
               ELSE RunDrivenLow' /\ curr' = STATE_STARTING /\ log' = <<>>
                    /\ reset_start' = reset_start]_vars

\* the reset pulse has just been ended, by a call that came after
\* T + RESET_HOLD_MS
C3_Witness ==
    /\ pre.curr = STATE_STARTING
    /\ curr = STATE_ON
    /\ RunReleased
    /\ pre.clock - reset_start > RESET_HOLD_MS

(***************************************************************************)
(* C4: in On, a falling edge confirmed with now - press_start >=           *)
(* BUTTON_PRESS_MS drives SHUTDOWN HIGH and then LOW exactly once (the     *)
(* line is LOW again when the call returns) and sets curr = ShuttingDown;  *)
(* no other transition writes SHUTDOWN HIGH.                               *)
(***************************************************************************)
C4_OneShutdownPulse ==
    [][/\ (/\ curr = STATE_ON
           /\ fell(butt')
           /\ pre'.clock - press_start >= BUTTON_PRESS_MS)
            => (log' = PulseLog /\ curr' = STATE_SHUTTING_DOWN)
       /\ ShutdownHighs(log') > 0
            => /\ ShutdownHighs(log') = 1
               /\ curr = STATE_ON
               /\ curr' = STATE_SHUTTING_DOWN
               /\ fell(butt')
               /\ pre'.clock - press_start >= BUTTON_PRESS_MS
       /\ port'[PIN_SHUTDOWN] = LOW]_vars

\* the pulse has just been given
C4_Witness ==
    /\ pre.curr = STATE_ON
    /\ curr = STATE_SHUTTING_DOWN
    /\ log = PulseLog
    /\ port[PIN_SHUTDOWN] = LOW

(***************************************************************************)
(* Presses.  press is the confirmed rising edge of the press being held    *)
(* when loop() is entered; the call confirms its falling edge when         *)
(* fell(butt') holds, at time pre'.clock.                                  *)
(***************************************************************************)
\* this call confirms the falling edge of a press shorter than
\* BUTTON_PRESS_MS
ShortPressEnds ==
    /\ fell(butt')
    /\ press # NoPress
    /\ pre'.clock - press.at < BUTTON_PRESS_MS

\* the same, seen after the call
ShortPressEnded ==
    /\ fell(butt)
    /\ pre.press # NoPress
    /\ pre.clock - pre.press.at < BUTTON_PRESS_MS

(***************************************************************************)
(* C5 (as stated): a press shorter than BUTTON_PRESS_MS has no side        *)
(* effect: in every state, the loop() call that confirms its falling edge  *)
(* leaves curr, reset_start and all the output pins unchanged.             *)
(***************************************************************************)
C5_ShortPressFrame ==
    [][ShortPressEnds => UNCHANGED <<curr, reset_start, port, ddr>>]_vars

(***************************************************************************)
(* C5 (amended): the loop() call that confirms the falling edge of a press *)
(* shorter than BUTTON_PRESS_MS leaves curr, reset_start and all the       *)
(* output pins unchanged when curr is Off or On; when curr is Starting or  *)
(* ShuttingDown the only changes it makes are those of the transition the  *)
(* elapsed time (Starting) or ACKOFF (ShuttingDown) causes in that call.   *)
(***************************************************************************)
C5_ShortPressNoEffect ==
    [][ShortPressEnds =>
        /\ reset_start' = reset_start
        /\ curr \in {STATE_OFF, STATE_ON}
            => UNCHANGED <<curr, port, ddr>> /\ log' = <<>>
        /\ curr = STATE_STARTING
            => IF pre'.clock - reset_start >= RESET_HOLD_MS
               THEN curr' = STATE_ON /\ log' = EndResetLog
               ELSE UNCHANGED <<curr, port, ddr>> /\ log' = <<>>
        /\ curr = STATE_SHUTTING_DOWN
            => IF log'[1] = <<"digitalRead", PIN_ACKOFF, HIGH>>
               THEN curr' = STATE_OFF
               ELSE UNCHANGED <<curr, port, ddr>>]_vars

\* a short press has just been released in Off or in On
C5_Witness ==
    /\ ShortPressEnded
    /\ pre.curr \in {STATE_OFF, STATE_ON}
    /\ pre.clock - pre.press.at = BUTTON_PRESS_MS - 50

(***************************************************************************)
(* C6: button activity in ShuttingDown is inert: an edge confirmed while   *)
(* curr = ShuttingDown changes no controller variable (curr, press_start,  *)
(* reset_start) and no output pin, and contributes to no later transition  *)
(* (no transition is triggered by a press whose rising edge was confirmed  *)
(* in ShuttingDown).  ACKOFF alone may change curr in such a call.         *)
(***************************************************************************)
C6_InertInShuttingDown ==
    [][/\ (curr = STATE_SHUTTING_DOWN /\ butt'.changed)
            => /\ press_start' = press_start
               /\ reset_start' = reset_start
               /\ log'[1] # <<"digitalRead", PIN_ACKOFF, HIGH>>
                    => UNCHANGED <<curr, port, ddr>>
       /\ (curr \in {STATE_OFF, STATE_ON} /\ curr' # curr)
            => press.in # STATE_SHUTTING_DOWN]_vars

(***************************************************************************)
(* C7 (as stated): every loop() call in which a falling edge is confirmed  *)
(* resets press_start to 0, whatever curr is and whether or not the press  *)
(* qualified.                                                              *)
(***************************************************************************)
C7_ClearedOnEveryFall == [][fell(butt') => press_start' = 0]_vars

(***************************************************************************)
(* C7 (amended): a loop() call in which a falling edge is confirmed resets *)
(* press_start to 0 when curr is Off or On, whether or not the press       *)
(* qualified; when curr is Starting or ShuttingDown it leaves press_start  *)
(* as it is.  Still no timestamp of an earlier press is present when a     *)
(* press is evaluated: while a press is held press_start is the time of    *)
(* its own confirmed rising edge, and a falling edge with no rising edge   *)
(* before it finds press_start = 0.                                        *)
(***************************************************************************)
C7_ClearedInOffAndOn ==
    [][/\ fell(butt') =>
            IF curr \in {STATE_OFF, STATE_ON}
            THEN press_start' = 0
            ELSE press_start' = press_start
       /\ (fell(butt') /\ press # NoPress) => press_start = press.at
       /\ (fell(butt') /\ press = NoPress) => press_start = 0]_vars

\* a press that did not qualify has been released in Off or On and its
\* timestamp is gone
C7_Witness ==
    /\ ShortPressEnded
    /\ pre.curr \in {STATE_OFF, STATE_ON}
    /\ pre.press_start # 0
    /\ press_start = 0

(***************************************************************************)
(* C8: a falling edge confirmed while press_start is unset (no rising edge *)
(* recorded, press_start = 0) is a no-op in Off and in On, at any clock    *)
(* value: no state transition and no pin write.                            *)
(***************************************************************************)
C8_UnsetPressNoOp ==
    [][(/\ fell(butt')
        /\ press = NoPress
        /\ press_start = 0
        /\ curr \in {STATE_OFF, STATE_ON})
       => (curr' = curr /\ log' = <<>> /\ UNCHANGED <<port, ddr>>)]_vars

(***************************************************************************)
(* C9: curr leaves ShuttingDown only in a loop() call that reads ACKOFF    *)
(* HIGH; as long as ACKOFF is read LOW curr stays ShuttingDown, whatever   *)
(* time passes and whatever the button does (there is no timeout).         *)
(***************************************************************************)
C9_OnlyAckoffEndsShutdown ==
    [][curr = STATE_SHUTTING_DOWN =>
        /\ Len(log') >= 1
        /\ log'[1][1] = "digitalRead" /\ log'[1][2] = PIN_ACKOFF
        /\ IF log'[1][3] = HIGH
           THEN curr' = STATE_OFF
           ELSE curr' = STATE_SHUTTING_DOWN /\ log' = << <<"digitalRead", PIN_ACKOFF, LOW>> >>]_vars

\* ShuttingDown has lasted longer than any of the sketch's time constants,
\* a long press has been released meanwhile, and ACKOFF was read LOW
C9_Witness ==
    /\ pre.curr = STATE_SHUTTING_DOWN
    /\ curr = STATE_SHUTTING_DOWN
    /\ fell(butt)
    /\ pre.press # NoPress
    /\ pre.clock - pre.press.at >= BUTTON_PRESS_MS
    /\ log = << <<"digitalRead", PIN_ACKOFF, LOW>> >>

(***************************************************************************)
(* C10: ACKOFF read HIGH in ShuttingDown moves curr to Off and lights the  *)
(* LED, once: the Off state it leads to is not left again because of       *)
(* ACKOFF.  While curr is Off, Starting or On the level of ACKOFF has no   *)
(* effect: whatever the time and the button level, a loop() call ends in   *)
(* the same state with ACKOFF HIGH as with ACKOFF LOW, and does not read   *)
(* the pin.                                                                *)
(***************************************************************************)
\* the state a loop() call entered d ms from now would produce
Outcome(d, raw, ack) ==
    LoopBody(Sketch(Add32(clock, d)), BounceUpdate(butt, raw, Add32(clock, d)), ack)

AckoffIgnored ==
    \A d \in ClockSteps, raw \in {LOW, HIGH} :
        Outcome(d, raw, HIGH) = Outcome(d, raw, LOW)

\* stated of the state each loop() call leaves behind (pre holds the values
\* the call found)
C10_AckoffOnlyInShuttingDown ==
    /\ (pre.curr = STATE_SHUTTING_DOWN
        /\ Len(log) >= 1
        /\ log[1] = <<"digitalRead", PIN_ACKOFF, HIGH>>)
         => /\ curr = STATE_OFF
            /\ port[PIN_BUTT_LED] = LOW
            /\ log = << <<"digitalRead", PIN_ACKOFF, HIGH>>,
                        <<"digitalWrite", PIN_BUTT_LED, LOW>> >>
    /\ curr # STATE_SHUTTING_DOWN => AckoffIgnored
    /\ pre.curr # STATE_SHUTTING_DOWN
         => \A i \in DOMAIN log : log[i][1] # "digitalRead"

\* ACKOFF has just ended ShuttingDown
C10_Witness ==
    /\ pre.curr = STATE_SHUTTING_DOWN
    /\ curr = STATE_OFF
    /\ port[PIN_BUTT_LED] = LOW
    /\ AckoffIgnored

(***************************************************************************)
(* C11: while curr = Starting the next value of curr depends on elapsed    *)
(* time only: whatever the button and ACKOFF do, curr stays Starting while *)
(* now - reset_start < RESET_HOLD_MS and becomes On at the first call with *)
(* now - reset_start >= RESET_HOLD_MS.  An edge confirmed during Starting  *)
(* is discarded: press_start apart, the call does what it does without the *)
(* edge, and On->ShuttingDown is made only by a call that confirms a       *)
(* falling edge itself while curr = On.                                    *)
(***************************************************************************)
C11_StartingTimeOnly ==
    [][/\ curr = STATE_STARTING
            => /\ curr' = IF pre'.clock - reset_start >= RESET_HOLD_MS
                          THEN STATE_ON ELSE STATE_STARTING
               /\ log' = IF curr' = STATE_ON THEN EndResetLog ELSE <<>>
               /\ reset_start' = reset_start
               /\ ~rose(butt') => press_start' = press_start
       /\ (curr = STATE_ON /\ curr' = STATE_SHUTTING_DOWN)
            => (fell(butt') /\ butt.debounced = HIGH)]_vars

\* a press released during Starting: its falling edge was confirmed by the
\* very call that ended the reset pulse, and curr is On
C11_Witness ==
    /\ pre.curr = STATE_STARTING
    /\ pre.press # NoPress
    /\ fell(butt)
    /\ curr = STATE_ON

(***************************************************************************)
(* C12: the debounced button (interval DEBOUNCE_MS) reports a rising or    *)
(* falling edge only when the level seen on BUTT has not changed for at    *)
(* least DEBOUNCE_MS since its last observed change; a call that reports   *)
(* no edge changes no state and no pin in Off and On, so a signal whose    *)
(* changes are all closer together than DEBOUNCE_MS never does.            *)
(***************************************************************************)
C12_EdgeOnlyAfterStableInterval ==
    [][/\ butt'.changed
            => /\ butt'.unstable = butt.unstable
               /\ butt'.debounced = butt.unstable
               /\ butt.debounced # butt.unstable
               /\ hist.raw_stable + (pre'.clock - clock) >= DEBOUNCE_MS
       /\ (~butt'.changed /\ curr \in {STATE_OFF, STATE_ON})
            => /\ UNCHANGED <<curr, press_start, reset_start, port, ddr>>
               /\ log' = <<>>]_vars

\* a rising edge confirmed exactly DEBOUNCE_MS after BUTT was first seen HIGH
\* (by the first call after setup)
C12_Witness ==
    /\ rose(butt)
    /\ pre.clock = DEBOUNCE_MS
    /\ hist.raw_stable = DEBOUNCE_MS

(***************************************************************************)
(* C13: one press-release cycle triggers at most one transition.  A        *)
(* confirmed falling edge is reported to one loop() call only (the next    *)
(* call never sees fell() again) and is evaluated by that call; curr       *)
(* changes at most once per call; Off->Starting and On->ShuttingDown are   *)
(* made only by a call that confirms a falling edge; and between two       *)
(* consecutive confirmed rising edges (or before the first) at most one    *)
(* such transition is made.  Stated of the state each call leaves behind.  *)
(***************************************************************************)
C13_OneTransitionPerPress ==
    /\ hist.triggered <= 1
    /\ curr # pre.curr => curr = NextState(pre.curr)
    /\ (pre.curr \in {STATE_OFF, STATE_ON} /\ curr # pre.curr) => fell(butt)
    /\ (fell(butt) /\ pre.curr \in {STATE_OFF, STATE_ON}) => press_start = 0
    /\ butt.changed =>
         \A d \in ClockSteps, raw \in {LOW, HIGH} :
             ~BounceUpdate(butt, raw, Add32(clock, d)).changed

\* the release of a press has just triggered its one transition
C13_Witness ==
    /\ fell(butt)
    /\ pre.press # NoPress
    /\ curr = NextState(pre.curr)
    /\ hist.triggered = 1

(***************************************************************************)
(* C14: at every loop() boundary RUN is a driven output at LOW if and only *)
(* if curr = Starting; in Off, On and ShuttingDown, and right after        *)
(* setup, RUN is a high-impedance input.                                   *)
(***************************************************************************)
C14_RunDrivenIffStarting ==
    IF curr = STATE_STARTING THEN RunDrivenLow ELSE RunReleased

\* the reset pulse is being held
C14_Witness ==
    /\ curr = STATE_STARTING
    /\ pre.curr = STATE_STARTING
    /\ RunDrivenLow

(***************************************************************************)
(* C16: starting from setup() (curr = On), RUN is not driven LOW before a  *)
(* complete On->ShuttingDown->Off sequence has been made: until the first  *)
(* ShuttingDown->Off, curr is On or ShuttingDown, RUN is an input and no   *)
(* call writes RUN or makes it an output, whatever the button does, the    *)
(* first call included.                                                    *)
(***************************************************************************)
C16_NoResetBeforeFirstShutdown ==
    hist.first_cycle =>
        /\ curr \in {STATE_ON, STATE_SHUTTING_DOWN}
        /\ RunReleased
        /\ \A i \in DOMAIN log : log[i][2] # PIN_RUN \/ log[i][1] = "delay"

\* the button was held at power-up and its release has been taken as a long
\* press: the host is told to shut down, RUN is still untouched
C16_Witness ==
    /\ hist.first_cycle
    /\ pre.press = NoPress
    /\ fell(butt)
    /\ curr = STATE_SHUTTING_DOWN
    /\ RunReleased

C15_StartingReachesOn ==
    /\ (curr = STATE_STARTING) ~> (curr = STATE_ON)
    /\ [][(curr # STATE_STARTING /\ curr' # curr)
            => \/ fell(butt')
               \/ \E i \in DOMAIN log' :
                    log'[i] = <<"digitalRead", PIN_ACKOFF, HIGH>>]_vars

\* a reset pulse has run its time and the host is on again
C15_Witness ==
    /\ pre.curr = STATE_STARTING
    /\ curr = STATE_ON
    /\ ~fell(butt)
    /\ Sub32(pre.clock, pre.reset_start) >= RESET_HOLD_MS

(***************************************************************************)
(* C18: the elapsed-time tests are computed in the unsigned arithmetic of  *)
(* unsigned long, so they measure the true elapsed time also when millis() *)
(* has wrapped around since the timestamp was recorded (WrapSpec):         *)
(* Starting ends at the first call whose true time since the pulse was     *)
(* started is >= RESET_HOLD_MS, and a press released in Off or On takes    *)
(* effect if and only if the true time from its confirmed rising edge to   *)
(* its confirmed falling edge is >= BUTTON_PRESS_MS.  hist.age is the      *)
(* uptime without wraparound; all elapsed times are below 2^ULONG_BITS.    *)
(***************************************************************************)
C18_WrapAroundSafe ==
    [][LET age == hist.age + Sub32(pre'.clock, clock)
       IN  /\ curr = STATE_STARTING
                => /\ age - hist.reset_at < Modulus
                   /\ curr' = STATE_ON <=> age - hist.reset_at >= RESET_HOLD_MS
           /\ (fell(butt') /\ curr \in {STATE_OFF, STATE_ON} /\ hist.press_at # -1)
                => /\ age - hist.press_at < Modulus
                   /\ curr' # curr <=> age - hist.press_at >= BUTTON_PRESS_MS]_vars

\* millis() has wrapped around while the reset pulse was held (now is the
\* smaller number), and the pulse has ended
C18_Witness ==
    /\ pre.curr = STATE_STARTING
    /\ curr = STATE_ON
    /\ pre.clock < pre.reset_start
    /\ hist.age >= Modulus

=============================================================================
